---- MODULE Spec2Model ----
(***************************************************************************)
(* Model of server.js: the Express application with POST /transcribe       *)
(* (multer upload -> ffmpeg conversion -> wav decode -> Whisper call ->    *)
(* response -> temp file cleanup), GET /health, and the asynchronous       *)
(* Whisper model load started at process startup.                          *)
(*                                                                         *)
(* JavaScript runs each handler segment (the code between two awaits) to   *)
(* completion; the ffmpeg child processes, the clock and the model load    *)
(* run beside it.  Each action below is one such segment or one step of    *)
(* an external process.                                                    *)
(***************************************************************************)
EXTENDS Integers, Sequences, FiniteSets, TLC

\* Number of HTTP requests the model follows.
NReq == 2
\* Last millisecond value of Date.now() the model draws from.
MaxTime == 1

\* Number of unlinkSync calls that throw in one run.
MaxUnlinkErrors == 1

Reqs == 1..NReq
Times == 0..MaxTime

\* What a client sends: nothing in the audio field, a file under another
\* field name, a file over the size limit, a file within the limit, or a
\* GET /health.
Kinds == {"none", "unexpected", "oversized", "file", "health"}

VARIABLES
    transcriber,   \* the module-level handle: "undefined" or "whisper"
    loader,        \* the startup IIFE: "pending", "resolved" or "rejected"
    procUp,        \* the Node process is running
    fs,            \* the uploads/ directory: path -> file
    kind,          \* what each request carries ("idle" before it arrives)
    pc,            \* where each request is
    reqFile,       \* req.file.path, or NoPath
    tempFiles,     \* the handler's tempFiles array
    wavFilePath,   \* the handler's wavFilePath, or NoPath
    ffmpeg,        \* the request's ffmpeg child process
    ffmpegOut,     \* the file (by creator) that child has open for output
    audioData,     \* the samples handed to the model call
    called,        \* the value of transcriber when line 96 called it
    result,        \* what the model call returned
    failure,       \* the error the catch block or next(err) received
    resp,          \* the responses written for the request, in order
    unlinkErr,     \* an unlinkSync of this request's cleanup threw
    unlinkErrors,  \* how many unlinkSync calls have thrown so far
    console        \* what the handler of each request has logged

vars == <<transcriber, loader, procUp, fs, kind, pc, reqFile, tempFiles,
          wavFilePath, ffmpeg, ffmpegOut, audioData, called, result, failure,
          resp, unlinkErr, unlinkErrors,
                   console>>

----------------------------------------------------------------------------
\* Paths and files

NoPath == <<"none", 0>>
\* multer's disk storage names each upload with 16 random bytes.
UploadPath(r) == <<"upload", r>>
\* path.join('uploads', `converted_${Date.now()}.wav`)
ConvertedPath(t) == <<"converted", t>>

Paths == {UploadPath(r) : r \in Reqs} \cup {ConvertedPath(t) : t \in Times}

\* A file: ino names the request whose process created it, srcs the uploads
\* its bytes were derived from, fmt what the bytes are.
Absent == [exists |-> FALSE, ino |-> 0, srcs |-> {}, fmt |-> "none"]
File(i, s, f) == [exists |-> TRUE, ino |-> i, srcs |-> s, fmt |-> f]

existsSync(p) == fs[p].exists

\* fs.readFileSync(filepath): the bytes now at that path.
readFileBuffer(filepath) == fs[filepath]

\* wav.decode(buffer).channelData[0]: the samples of whatever the bytes were
\* converted from.
decodeWavToFloat32(buffer) == buffer.srcs

----------------------------------------------------------------------------
\* Errors and responses

NoError == [name |-> "none", message |-> "none"]
Err(n, m) == [name |-> n, message |-> m]

MulterFileTooLarge == Err("MulterError", "File too large")
MulterUnexpected == Err("MulterError", "Unexpected field")
FfmpegError == Err("Error", "ffmpeg exited with code 1")
ENOENT == Err("Error", "ENOENT: no such file or directory")
WavError == Err("Error", "Invalid WAV file")
NotAFunction == Err("TypeError", "transcriber is not a function")
WhisperError == Err("Error", "inference failed")

NoField == "<absent>"
NoText == [of |-> {}]
NoResult == [text |-> NoText]

\* A response: HTTP status, content type and the fields of a JSON body.
Response(st, ct, e, t, s, m) ==
    [status |-> st, ctype |-> ct, error |-> e, text |-> t,
     state |-> s, model |-> m]

\* res.status(400).json({ error: "No audio file provided" })
MissingInputResponse == Response(400, "json", "No audio file provided", NoText, NoField, NoField)

\* res.json({ text: result.text })
SuccessResponseBad(rs) == Response(200, "json", NoField, NoText, NoField, NoField)
SuccessResponse(rs) == Response(200, "json", NoField, rs.text, NoField, NoField)

\* res.status(500).json({ error: error.message })
CatchResponseBad(error) == Response(400, "json", error.message, NoText, NoField, NoField)
CatchResponse(error) == Response(500, "json", error.message, NoText, NoField, NoField)

\* res.json({ status: 'ok', model: 'whisper-tiny.en' })
HealthResponseBad ==
    IF transcriber = "undefined"
    THEN Response(503, "json", NoField, NoText, "loading", "whisper-tiny.en")
    ELSE Response(200, "json", NoField, NoText, "ok", "whisper-tiny.en")
HealthResponse == Response(200, "json", NoField, NoText, "ok", "whisper-tiny.en")

\* No error-handling middleware is registered, so an error passed to next()
\* reaches Express's default handler: the error has no status, the response
\* is 500 with an HTML page.
DefaultErrorResponse(error) == Response(500, "html", NoField, NoText, NoField, NoField)

\* The Whisper pipeline, a black box: its text is a function of the samples.
WhisperResult(samples) == [text |-> [of |-> samples]]

\* What the handler writes with console.log and console.error: line 73,
\* line 93, line 98 and line 103.  "unlink" stands for a record of a failed
\* unlinkSync, which no line writes.
LogRecords == {"received", "transcribing", "transcription", "error", "unlink"}

----------------------------------------------------------------------------
TypeOK ==
    /\ transcriber \in {"undefined", "whisper"}
    /\ loader \in {"pending", "resolved", "rejected"}
    /\ procUp \in BOOLEAN
    /\ DOMAIN fs = Paths
    /\ unlinkErrors \in 0..MaxUnlinkErrors
    /\ \A r \in Reqs :
        /\ kind[r] \in Kinds \cup {"idle"}
        /\ pc[r] \in {"idle", "multer", "handler", "converting", "inferring",
                      "cleanup", "done", "aborted"}
        /\ ffmpeg[r] \in {"none", "spawned", "writing", "ended", "failed"}
        /\ ffmpegOut[r] \in 0..NReq
        /\ audioData[r] \subseteq Reqs
        /\ called[r] \in {"none", "undefined", "whisper"}
        /\ Len(resp[r]) \in 0..2
        /\ unlinkErr[r] \in BOOLEAN
        /\ console[r] \subseteq LogRecords

Init ==
    /\ transcriber = "undefined"
    /\ loader = "pending"
    /\ procUp = TRUE
    /\ fs = [p \in Paths |-> Absent]
    /\ kind = [r \in Reqs |-> "idle"]
    /\ pc = [r \in Reqs |-> "idle"]
    /\ reqFile = [r \in Reqs |-> NoPath]
    /\ tempFiles = [r \in Reqs |-> <<>>]
    /\ wavFilePath = [r \in Reqs |-> NoPath]
    /\ ffmpeg = [r \in Reqs |-> "none"]
    /\ ffmpegOut = [r \in Reqs |-> 0]
    /\ audioData = [r \in Reqs |-> {}]
    /\ called = [r \in Reqs |-> "none"]
    /\ result = [r \in Reqs |-> NoResult]
    /\ failure = [r \in Reqs |-> NoError]
    /\ resp = [r \in Reqs |-> <<>>]
    /\ unlinkErr = [r \in Reqs |-> FALSE]
    /\ unlinkErrors = 0
    /\ console = [r \in Reqs |-> {}]

\* A handler is inside its synchronous tail (response written, finally block
\* running): no other JavaScript runs until it returns.
jsBusy == \E q \in Reqs : pc[q] = "cleanup"
jsFree == procUp /\ ~jsBusy

----------------------------------------------------------------------------
\* The startup IIFE: transcriber = await pipeline(...)

\* pipeline() resolved: the handle is assigned.
LoadOkAgain ==
    /\ jsFree
    /\ loader # "resolved"
    /\ loader' = "resolved"
    /\ transcriber' = "whisper"
    /\ UNCHANGED <<procUp, fs, kind, pc, reqFile, tempFiles, wavFilePath,
                   ffmpeg, ffmpegOut, audioData, called, result, failure,
                   resp, unlinkErr, unlinkErrors, console>>
LoadOk ==
    /\ jsFree
    /\ loader = "pending"
    /\ loader' = "resolved"
    /\ transcriber' = "whisper"
    /\ UNCHANGED <<procUp, fs, kind, pc, reqFile, tempFiles, wavFilePath,
                   ffmpeg, ffmpegOut, audioData, called, result, failure,
                   resp, unlinkErr, unlinkErrors,
                   console>>

\* pipeline() rejected: the IIFE has no catch, so the rejection is unhandled.
\* Node's default mode ends the process: what the handlers held in memory is
\* gone, the requests in flight are never answered (pc "aborted") and the
\* files they had on disk stay there.  Under --unhandled-rejections=warn the
\* process keeps running with the handle left undefined.
LoadFail(exits) ==
    /\ jsFree
    /\ loader = "pending"
    /\ loader' = "rejected"
    /\ procUp' = ~exits
    /\ IF exits
       THEN /\ pc' = [r \in Reqs |-> IF pc[r] \in {"idle", "done"}
                                     THEN pc[r] ELSE "aborted"]
            /\ reqFile' = [r \in Reqs |-> IF pc[r] = "done" THEN reqFile[r] ELSE NoPath]
            /\ tempFiles' = [r \in Reqs |-> <<>>]
            /\ wavFilePath' = [r \in Reqs |-> NoPath]
            /\ ffmpeg' = [r \in Reqs |-> "none"]
            /\ ffmpegOut' = [r \in Reqs |-> 0]
            /\ audioData' = [r \in Reqs |-> {}]
            /\ called' = [r \in Reqs |-> IF pc[r] = "done" THEN called[r] ELSE "none"]
       ELSE UNCHANGED <<pc, reqFile, tempFiles, wavFilePath, ffmpeg,
                        ffmpegOut, audioData, called>>
    /\ UNCHANGED <<transcriber, fs, kind, result, failure, resp, unlinkErr,
                   unlinkErrors,
                   console>>

----------------------------------------------------------------------------
\* The upload receiver: upload.single('audio')

\* A request reaches the server.  For an upload with a file in the audio
\* field multer starts streaming it to a new file under uploads/.
Arrive(r, k) ==
    /\ jsFree
    /\ pc[r] = "idle"
    /\ kind' = [kind EXCEPT ![r] = k]
    /\ pc' = [pc EXCEPT ![r] = IF k = "health" THEN "handler" ELSE "multer"]
    /\ fs' = IF k \in {"file", "oversized"}
             THEN [fs EXCEPT ![UploadPath(r)] = File(r, {r}, "partial")]
             ELSE fs
    /\ UNCHANGED <<transcriber, loader, procUp, reqFile, tempFiles,
                   wavFilePath, ffmpeg, ffmpegOut, audioData, called, result,
                   failure, resp, unlinkErr, unlinkErrors,
                   console>>

\* next(err) with no error middleware registered.
NextWithError(r, error) ==
    /\ failure' = [failure EXCEPT ![r] = error]
    /\ resp' = [resp EXCEPT ![r] = Append(@, DefaultErrorResponse(error))]
    /\ pc' = [pc EXCEPT ![r] = "done"]

\* multer finishes the body: it sets req.file and calls next(), or it fails
\* with a MulterError, removes what it stored and calls next(err).
MulterDone(r) ==
    /\ jsFree
    /\ pc[r] = "multer"
    /\ \/ /\ kind[r] = "none"
          /\ pc' = [pc EXCEPT ![r] = "handler"]
          /\ UNCHANGED <<fs, reqFile, failure, resp>>
       \/ /\ kind[r] = "file"
          /\ existsSync(UploadPath(r))
          /\ fs' = [fs EXCEPT ![UploadPath(r)] = File(r, {r}, "raw")]
          /\ reqFile' = [reqFile EXCEPT ![r] = UploadPath(r)]
          /\ pc' = [pc EXCEPT ![r] = "handler"]
          /\ UNCHANGED <<failure, resp>>
       \/ /\ kind[r] = "unexpected"
          /\ NextWithError(r, MulterUnexpected)
          /\ UNCHANGED <<fs, reqFile>>
       \/ /\ kind[r] = "oversized"
          /\ existsSync(UploadPath(r))
          /\ fs' = [fs EXCEPT ![UploadPath(r)] = Absent]
          /\ NextWithError(r, MulterFileTooLarge)
          /\ UNCHANGED reqFile
    /\ UNCHANGED <<transcriber, loader, procUp, kind, tempFiles,
                   wavFilePath, ffmpeg, ffmpegOut, audioData, called, result, unlinkErr, unlinkErrors,
                   console>>

----------------------------------------------------------------------------
\* POST /transcribe: the handler

\* tempFiles.push(inputFilePath); tempFiles.push(wavFilePath)
RecordedPathsNoUpload(inputFilePath, wavPath) == <<wavPath>>
RecordedPathsBad(inputFilePath, wavPath) == <<inputFilePath>>
RecordedPaths(inputFilePath, wavPath) == <<inputFilePath, wavPath>>

\* The catch block: the response is written, then the finally block starts.
\* logged holds what the try block logged in this step before it threw.
CatchRetry(r, error, logged) ==
    /\ console' = [console EXCEPT ![r] = @ \cup logged \cup {"error"}]
    /\ failure' = [failure EXCEPT ![r] = error]
    /\ pc' = [pc EXCEPT ![r] = "handler"]
    /\ UNCHANGED resp
Catch(r, error, logged) ==
    /\ console' = [console EXCEPT ![r] = @ \cup logged \cup {"error"}]
    /\ failure' = [failure EXCEPT ![r] = error]
    /\ resp' = [resp EXCEPT ![r] = Append(@, CatchResponse(error))]
    /\ pc' = [pc EXCEPT ![r] = "cleanup"]

\* Lines 69-71: the 400 response is written, then return runs the finally
\* block.
MissingInputNoReturn(r) ==
    /\ resp' = [resp EXCEPT ![r] = <<MissingInputResponse,
                                     CatchResponse(NotAFunction)>>]
    /\ pc' = [pc EXCEPT ![r] = "cleanup"]
MissingInput(r) ==
    /\ resp' = [resp EXCEPT ![r] = Append(@, MissingInputResponse)]
    /\ pc' = [pc EXCEPT ![r] = "cleanup"]

\* Lines 66-85: the missing-file check, the two paths recorded, ffmpeg
\* spawned by convertAudioToWav.  t is what Date.now() returns: wall-clock
\* milliseconds, which need not have moved since another request read them.
HandlerStart(r, t) ==
    /\ jsFree
    /\ pc[r] = "handler"
    /\ kind[r] # "health"
    /\ IF reqFile[r] = NoPath
       THEN /\ MissingInput(r)
            /\ t = 0   \* Date.now() is not read on this path
            /\ UNCHANGED <<tempFiles, wavFilePath, ffmpeg, console>>
       ELSE /\ console' = [console EXCEPT ![r] = @ \cup {"received"}]
            /\ tempFiles' = [tempFiles EXCEPT ![r] =
                                RecordedPaths(reqFile[r], ConvertedPath(t))]
            /\ wavFilePath' = [wavFilePath EXCEPT ![r] = ConvertedPath(t)]
            /\ ffmpeg' = [ffmpeg EXCEPT ![r] = "spawned"]
            /\ pc' = [pc EXCEPT ![r] = "converting"]
            /\ UNCHANGED resp
    /\ UNCHANGED <<transcriber, loader, procUp, fs, kind, reqFile,
                   ffmpegOut, audioData, called, result, failure, unlinkErr, unlinkErrors>>

\* The ffmpeg child opens its output: it creates the file, or truncates the
\* one already at that path, which other children may still be writing.
convertAudioToWavOpen(r) ==
    LET p == wavFilePath[r]
        writers == {q \in Reqs : ffmpeg[q] = "writing" /\ fs[p].exists
                                 /\ ffmpegOut[q] = fs[p].ino}
    IN  /\ procUp
        /\ ffmpeg[r] = "spawned"
        /\ fs' = [fs EXCEPT ![p] =
                    IF fs[p].exists
                    THEN File(fs[p].ino, writers \cup {r}, "partial")
                    ELSE File(r, {r}, "partial")]
        /\ ffmpegOut' = [ffmpegOut EXCEPT ![r] =
                            IF fs[p].exists THEN fs[p].ino ELSE r]
        /\ ffmpeg' = [ffmpeg EXCEPT ![r] = "writing"]
        /\ UNCHANGED <<transcriber, loader, procUp, kind, pc, reqFile,
                       tempFiles, wavFilePath, audioData, called, result,
                       failure, resp, unlinkErr, unlinkErrors,
                   console>>

\* The ffmpeg child exits: with status 0 after finishing the file it has
\* open, or with an error, before or after it opened its output.
convertAudioToWavExit(r, ok) ==
    LET p == wavFilePath[r] IN
    /\ procUp
    /\ IF ok
       THEN /\ ffmpeg[r] = "writing"
            /\ ffmpeg' = [ffmpeg EXCEPT ![r] = "ended"]
            /\ fs' = IF fs[p].exists /\ fs[p].ino = ffmpegOut[r]
                     THEN [fs EXCEPT ![p].fmt = "wav"]
                     ELSE fs
       ELSE /\ ffmpeg[r] \in {"spawned", "writing"}
            /\ ffmpeg' = [ffmpeg EXCEPT ![r] = "failed"]
            /\ fs' = fs
    /\ UNCHANGED <<transcriber, loader, procUp, kind, pc, reqFile,
                   tempFiles, wavFilePath, ffmpegOut, audioData, called,
                   result, failure, resp, unlinkErr, unlinkErrors,
                   console>>

\* Lines 85-96 after the await: the promise rejected (catch), or it resolved
\* and the file is read, decoded and handed to transcriber.  decodes says
\* whether wav.decode accepts a file that is still being written.
AfterConvert(r, decodes) ==
    LET p == wavFilePath[r] IN
    /\ jsFree
    /\ pc[r] = "converting"
    /\ ffmpeg[r] \in {"ended", "failed"}
    /\ IF ffmpeg[r] = "failed"
       THEN Catch(r, FfmpegError, {}) /\ UNCHANGED <<audioData, called>>
       ELSE IF ~existsSync(p)
       THEN Catch(r, ENOENT, {}) /\ UNCHANGED <<audioData, called>>
       ELSE IF readFileBuffer(p).fmt # "wav" /\ ~decodes
       THEN Catch(r, WavError, {}) /\ UNCHANGED <<audioData, called>>
       ELSE /\ audioData' = [audioData EXCEPT ![r] =
                                decodeWavToFloat32(readFileBuffer(p))]
            /\ called' = [called EXCEPT ![r] = transcriber]
            /\ IF transcriber = "undefined"
               THEN Catch(r, NotAFunction, {"transcribing"})
               ELSE /\ pc' = [pc EXCEPT ![r] = "inferring"]
                    /\ console' = [console EXCEPT ![r] = @ \cup {"transcribing"}]
                    /\ UNCHANGED <<failure, resp>>
    /\ UNCHANGED <<transcriber, loader, procUp, fs, kind, reqFile,
                   tempFiles, wavFilePath, ffmpeg, ffmpegOut, result, unlinkErr, unlinkErrors>>

\* Lines 96-100 after the await: the model call returned or threw.
AfterTranscribe(r, ok) ==
    /\ jsFree
    /\ pc[r] = "inferring"
    /\ IF ok
       THEN /\ result' = [result EXCEPT ![r] = WhisperResult(audioData[r])]
            /\ resp' = [resp EXCEPT ![r] =
                           Append(@, SuccessResponse(WhisperResult(audioData[r])))]
            /\ pc' = [pc EXCEPT ![r] = "cleanup"]
            /\ console' = [console EXCEPT ![r] = @ \cup {"transcription"}]
            /\ UNCHANGED failure
       ELSE Catch(r, WhisperError, {}) /\ UNCHANGED result
    /\ UNCHANGED <<transcriber, loader, procUp, fs, kind, reqFile,
                   tempFiles, wavFilePath, ffmpeg, ffmpegOut, audioData,
                   called, unlinkErr, unlinkErrors>>

\* The finally block, tempFiles.forEach: each recorded path that exists is
\* unlinked; an unlinkSync that throws is caught and ignored, and the loop
\* goes on.  throwing holds the positions whose unlinkSync throws.  Then the
\* handler returns and its locals are gone.
\* catch {} around unlinkSync, line 110: nothing is logged.
CleanupLog(throwing) == {}

UnlinkedUntilThrow(files, throwing) ==
    {files[i] : i \in {j \in DOMAIN files :
                          /\ existsSync(files[j])
                          /\ \A k \in throwing : j < k}}
Unlinked(files, throwing) ==
    {files[i] : i \in {j \in DOMAIN files : existsSync(files[j])} \ throwing}

CleanupWith(r, throwing) ==
    /\ procUp
    /\ pc[r] = "cleanup"
    /\ throwing \subseteq {j \in DOMAIN tempFiles[r] : existsSync(tempFiles[r][j])}
    /\ unlinkErrors + Cardinality(throwing) <= MaxUnlinkErrors
    /\ unlinkErrors' = unlinkErrors + Cardinality(throwing)
    /\ fs' = [p \in Paths |->
                IF p \in Unlinked(tempFiles[r], throwing) THEN Absent ELSE fs[p]]
    /\ unlinkErr' = [unlinkErr EXCEPT ![r] = (throwing # {})]
    /\ pc' = [pc EXCEPT ![r] = "done"]
    /\ tempFiles' = [tempFiles EXCEPT ![r] = <<>>]
    /\ wavFilePath' = [wavFilePath EXCEPT ![r] = NoPath]
    /\ audioData' = [audioData EXCEPT ![r] = {}]
    /\ ffmpeg' = [ffmpeg EXCEPT ![r] = "none"]
    /\ ffmpegOut' = [ffmpegOut EXCEPT ![r] = 0]
    /\ console' = [console EXCEPT ![r] = @ \cup CleanupLog(throwing)]
    /\ UNCHANGED <<transcriber, loader, procUp, kind, reqFile, called,
                   result, failure, resp>>

Cleanup(r) ==
    \E throwing \in SUBSET (DOMAIN tempFiles[r]) : CleanupWith(r, throwing)

----------------------------------------------------------------------------
\* GET /health

Health(r) ==
    /\ jsFree
    /\ pc[r] = "handler"
    /\ kind[r] = "health"
    /\ resp' = [resp EXCEPT ![r] = Append(@, HealthResponse)]
    /\ pc' = [pc EXCEPT ![r] = "done"]
    /\ UNCHANGED <<transcriber, loader, procUp, fs, kind, reqFile,
                   tempFiles, wavFilePath, ffmpeg, ffmpegOut, audioData,
                   called, result, failure, unlinkErr, unlinkErrors,
                   console>>

----------------------------------------------------------------------------
Next ==
    \/ LoadOk
    \/ \E exits \in BOOLEAN : LoadFail(exits)
    \/ \E r \in Reqs, k \in Kinds : Arrive(r, k)
    \/ \E r \in Reqs : MulterDone(r)
    \/ \E r \in Reqs, t \in Times : HandlerStart(r, t)
    \/ \E r \in Reqs : convertAudioToWavOpen(r)
    \/ \E r \in Reqs, ok \in BOOLEAN : convertAudioToWavExit(r, ok)
    \/ \E r \in Reqs, decodes \in BOOLEAN : AfterConvert(r, decodes)
    \/ \E r \in Reqs, ok \in BOOLEAN : AfterTranscribe(r, ok)
    \/ \E r \in Reqs : Cleanup(r)
    \/ \E r \in Reqs : Health(r)

Spec == Init /\ [][Next]_vars

\* The startup load settles, every request that arrived is parsed, every
\* ffmpeg child exits, every model call settles, and every continuation the
\* event loop has queued is run.
Fairness ==
    /\ WF_vars(LoadOk \/ \E exits \in BOOLEAN : LoadFail(exits))
    /\ \A r \in Reqs :
        /\ WF_vars(MulterDone(r))
        /\ WF_vars(\E t \in Times : HandlerStart(r, t))
        /\ WF_vars(convertAudioToWavOpen(r)
                      \/ \E ok \in BOOLEAN : convertAudioToWavExit(r, ok))
        /\ WF_vars(\E decodes \in BOOLEAN : AfterConvert(r, decodes))
        /\ WF_vars(\E ok \in BOOLEAN : AfterTranscribe(r, ok))
        /\ WF_vars(Cleanup(r))
        /\ WF_vars(Health(r))

FairSpec == Spec /\ Fairness

----------------------------------------------------------------------------
\* Properties

Answered(r) == pc[r] \in {"cleanup", "done"}
InFlight(r) == pc[r] \in {"multer", "handler", "converting", "inferring", "cleanup"}
\* The files a request's multer upload or ffmpeg child created.
FilesOf(r) == {p \in Paths : fs[p].exists /\ fs[p].ino = r}
\* The paths in a tempFiles array.
Range(files) == {files[i] : i \in DOMAIN files}
\* The steps a POST /transcribe request can take: received by multer, handed
\* to the handler, converted, decoded and handed to the model, answered,
\* cleaned up; or cut off when the process ends.
StageOrder ==
    {<<"idle", "multer">>, <<"multer", "handler">>, <<"multer", "done">>,
     <<"handler", "converting">>, <<"handler", "cleanup">>,
     <<"converting", "inferring">>, <<"converting", "cleanup">>,
     <<"inferring", "cleanup">>, <<"cleanup", "done">>,
     <<"multer", "aborted">>, <<"handler", "aborted">>,
     <<"converting", "aborted">>, <<"inferring", "aborted">>}
\* The errors of the conversion, decode and inference steps.
StageErrors == {FfmpegError, ENOENT, WavError, NotAFunction, WhisperError}

C2_SuccessIsTranscript ==
    \A r \in Reqs :
        result[r] # NoResult =>
            /\ Len(resp[r]) = 1
            /\ resp[r][1].status = 200
            /\ resp[r][1].ctype = "json"
            /\ resp[r][1].text = result[r].text
            /\ resp[r][1].text # NoText
            /\ resp[r][1].error = NoField

\* A request was answered with its transcript while another one is still
\* converting.
C2_Witness ==
    \E r, q \in Reqs :
        /\ r # q
        /\ kind[r] = "file" /\ result[r] # NoResult /\ Answered(r)
        /\ resp[r][1].status = 200
        /\ pc[q] = "converting"

\* C3: the converted-output paths of requests in flight at the same time are
\* pairwise different, and different from every stored upload path.
C3_DistinctTempPaths ==
    \A r, q \in Reqs :
        wavFilePath[r] # NoPath =>
            /\ wavFilePath[r] # UploadPath(q)
            /\ (r # q => wavFilePath[r] # wavFilePath[q])

\* C4: the samples handed to the model for a request are decoded from the WAV
\* converted from that request's own upload, and the converted file a request
\* still has to read is neither overwritten nor deleted by another request.
C4_OwnUploadOnly ==
    \A r \in Reqs :
        /\ called[r] # "none" /\ InFlight(r) => audioData[r] = {r}
        /\ pc[r] = "converting" /\ ffmpeg[r] = "ended" =>
              fs[wavFilePath[r]] = File(r, {r}, "wav")

\* C5: a request that reaches the inference step before the model load has
\* completed waits or fails with ModelNotReady; the handle is never invoked
\* while it is undefined.
C5_NeverCallsUndefinedHandle ==
    \A r \in Reqs :
        /\ called[r] # "undefined"
        /\ failure[r].name # "TypeError"

\* C6: a request with no file in the audio field is answered with HTTP 400
\* and a JSON body whose error field is "No audio file provided".
C6_MissingInputIs400 ==
    \A r \in Reqs :
        kind[r] \in {"none", "unexpected"} /\ Answered(r) =>
            /\ Len(resp[r]) = 1
            /\ resp[r][1].status = 400
            /\ resp[r][1].ctype = "json"
            /\ resp[r][1].error = "No audio file provided"

\* C7: a request whose file exceeds the 20 MiB limit is answered with HTTP
\* 400 or 413, and it is rejected before the whole body is on disk.
C7_OversizedIsClientError ==
    \A r \in Reqs :
        kind[r] = "oversized" =>
            /\ fs[UploadPath(r)].fmt # "raw"
            /\ reqFile[r] = NoPath
            /\ Answered(r) => Len(resp[r]) = 1 /\ resp[r][1].status \in {400, 413}

\* C8: every failure of the conversion, decode or inference step is answered
\* with HTTP 500 and a JSON body whose error field is the failure's message,
\* never with 200 or a 4xx status.
C8_StageFailureIs500 ==
    \A r \in Reqs :
        failure[r] \in StageErrors =>
            /\ Len(resp[r]) = 1
            /\ resp[r][1].status = 500
            /\ resp[r][1].ctype = "json"
            /\ resp[r][1].error = failure[r].message
            /\ resp[r][1].text = NoText

\* One request failed in conversion and another in the model call (or at the
\* undefined handle), and both have been answered.
C8_Witness ==
    \E r, q \in Reqs :
        /\ failure[r] = FfmpegError /\ pc[r] = "done"
        /\ failure[q] \in {WhisperError, NotAFunction} /\ Answered(q)

\* C9: every failed POST /transcribe request, whatever stage fails (the
\* upload receiver included), is answered with a JSON object that has an
\* error string field.
C9_FailureIsJsonError ==
    \A r \in Reqs :
        kind[r] # "health" /\ Answered(r) /\ result[r] = NoResult =>
            /\ Len(resp[r]) = 1
            /\ resp[r][1].ctype = "json"
            /\ resp[r][1].error # NoField

C11_HealthOkMeansLoaded ==
    \A r \in Reqs :
        kind[r] = "health" /\ Len(resp[r]) > 0 /\ resp[r][1].state = "ok" =>
            transcriber = "whisper" /\ loader = "resolved"

\* C12: a POST /transcribe request moves through its stages in order only
\* (received, uploaded, converted and decoded, transcribed, answered) or
\* from a stage straight to its failure response; no stage is revisited or
\* retried: ffmpeg is spawned once, from the handler's first segment, and
\* the model is called once, on the samples decoded from the converted file
\* after ffmpeg ended without error.
C12_StagesInOrder ==
    [][\A r \in Reqs :
          kind'[r] # "health" =>
            /\ pc'[r] # pc[r] => <<pc[r], pc'[r]>> \in StageOrder
            /\ ffmpeg'[r] = "spawned" /\ ffmpeg[r] # "spawned" =>
                  pc[r] = "handler" /\ ffmpeg[r] = "none"
            /\ called'[r] # called[r] /\ called'[r] # "none" =>
                  /\ called[r] = "none"
                  /\ pc[r] = "converting" /\ ffmpeg[r] = "ended"
                  /\ existsSync(wavFilePath[r])
                  /\ audioData'[r] = fs[wavFilePath[r]].srcs]_vars

\* One request went through every stage to a 200 response and another one
\* failed in conversion; both are done.
C12_Witness ==
    \E r, q \in Reqs :
        /\ pc[r] = "done" /\ called[r] = "whisper" /\ result[r] # NoResult
        /\ Len(resp[r]) = 1 /\ resp[r][1].status = 200
        /\ pc[q] = "done" /\ failure[q] = FfmpegError /\ called[q] = "none"

\* C13: on every path the request's recorded temp files are deleted before
\* its response is issued: in no state has the response been written while
\* a recorded temp file still exists.
C13_CleanupBeforeResponse ==
    \A r \in Reqs :
        Len(resp[r]) > 0 =>
            \A i \in DOMAIN tempFiles[r] : ~existsSync(tempFiles[r][i])

\* C14: the shared model handle is written at most once, by the startup load
\* when it resolves; no other step (a POST /transcribe or GET /health
\* handler, multer, ffmpeg, cleanup) changes it.
C14_HandleWrittenOnceByLoad ==
    [][transcriber' # transcriber =>
          /\ transcriber = "undefined" /\ transcriber' = "whisper"
          /\ loader = "pending" /\ loader' = "resolved"]_vars

\* The handle is loaded, a transcription used it and was answered, and a
\* health request was answered.
C14_Witness ==
    /\ transcriber = "whisper"
    /\ \E r, q \in Reqs :
        /\ kind[r] = "file" /\ pc[r] = "done" /\ called[r] = "whisper"
        /\ resp[r][1].status = 200
        /\ kind[q] = "health" /\ pc[q] = "done"

\* C15: the cleanup step leaves the response and the recorded failure as
\* they were, touches no path outside the request's tempFiles, and every
\* recorded path that existed before the step and still exists after it is
\* one whose unlinkSync threw: a throw on one path does not stop the loop,
\* and a path that does not exist costs no error.
C15_CleanupBestEffort ==
    [][\A r \in Reqs :
          pc[r] = "cleanup" /\ pc'[r] = "done" =>
            /\ resp'[r] = resp[r]
            /\ failure'[r] = failure[r]
            /\ \A p \in Paths \ Range(tempFiles[r]) : fs'[p] = fs[p]
            /\ \A p \in Range(tempFiles[r]) : ~fs[p].exists => ~fs'[p].exists
            /\ Cardinality({p \in Range(tempFiles[r]) :
                               fs[p].exists /\ fs'[p].exists})
                  = unlinkErrors' - unlinkErrors]_vars

\* A request was answered 200, the unlinkSync of its upload threw and its
\* converted file was removed all the same; the other request failed in
\* conversion and its cleanup threw nothing.
C15_Witness ==
    \E r, q \in Reqs :
        /\ pc[r] = "done" /\ unlinkErr[r] /\ resp[r][1].status = 200
        /\ existsSync(UploadPath(r))
        /\ \A t \in Times : ~existsSync(ConvertedPath(t))
        /\ pc[q] = "done" /\ failure[q] = FfmpegError /\ ~unlinkErr[q]
        /\ FilesOf(q) = {}

\* C16: every unlinkSync error of a request's cleanup produces a log record.
C16_CleanupErrorLogged ==
    \A r \in Reqs : unlinkErr[r] => "unlink" \in console[r]

\* C17 (as stated): in every state of a POST /transcribe request, every file
\* on disk that was created for the request is recorded in its tempFiles.
C17_EveryFileRecorded ==
    \A r \in Reqs :
        InFlight(r) => FilesOf(r) \subseteq Range(tempFiles[r])

\* C17 (amended): from the handler's first await until its cleanup, every
\* file on disk that was created for the request is recorded in its
\* tempFiles, and so is the path its ffmpeg child writes to; while multer is
\* still storing the upload, the file is in no cleanup list.
C17_EveryFileRecordedOnceHandlerRuns ==
    \A r \in Reqs :
        /\ pc[r] \in {"converting", "inferring", "cleanup"} =>
              FilesOf(r) \subseteq Range(tempFiles[r])
        /\ ffmpeg[r] # "none" =>
              /\ wavFilePath[r] \in Range(tempFiles[r])
              /\ reqFile[r] \in Range(tempFiles[r])

\* A conversion failed after ffmpeg had written part of its output; the
\* response is written, cleanup is about to run, and the partial file is in
\* tempFiles.
C17_Witness ==
    \E r \in Reqs :
        /\ pc[r] = "cleanup" /\ failure[r] = FfmpegError
        /\ fs[wavFilePath[r]] = File(r, {r}, "partial")
        /\ wavFilePath[r] \in Range(tempFiles[r])
        /\ existsSync(UploadPath(r))

C19_EveryRequestCompletes ==
    \A r \in Reqs :
        (kind[r] = "file" /\ pc[r] \in {"converting", "inferring"})
            ~> (pc[r] = "done" /\ Len(resp[r]) = 1)

====
